---- MODULE Spec2Model ----
(***************************************************************************)
(* Model of the job-search backend's token lifecycle and socket chat       *)
(* layer: authentication.middleware.js, socket.utils.js, chat.service.js,  *)
(* authentication.service.js (sign-in / sign-out), profile.service.js      *)
(* (soft delete) and the Company / Chat / User schemas.                    *)
(*                                                                         *)
(* Granularity: one action is one store operation together with the code   *)
(* that runs after it up to the next await.  The reads made by             *)
(* validateUserToken (black list, user) are taken in one step.             *)
(***************************************************************************)
EXTENDS Integers, Sequences, FiniteSets, TLC

\* ---------------------------------------------------------------- bounds
MaxTime == 1
MaxLogins == 2
MaxSockets == 2
MaxMessages == 2
MaxSignOuts == 1
MaxTimers == 1
MaxOtps == 2
MaxApplications == 2

\* ------------------------------------------------------ program constants
\* process.env.ACCESS_TOKEN_EXPIRATION_TIME / REFRESH_TOKEN_EXPIRATION_TIME,
\* in clock ticks
AccessTtl == 1
RefreshTtl == 2
\* the setTimeout delay of the deleteChat listener, 24 * 60 * 60 * 1000 ms,
\* in clock ticks
DeleteDelay == 1
\* life of a one-time code, `expiresIn.getMinutes() + 10`: ten minutes are
\* within one clock tick, so a code is good until the clock ticks
OtpTtl == 0

\* ------------------------------------------------------------ value sets
Users == {"u1", "u2", "u3"}
\* the JavaScript value undefined, as read from `x._id` when x carries no _id
Undef == "undefined"
Ids == Users \cup {Undef}
Bodies == {"hi", "yo"}
\* six-digit codes of the account routes
Codes == {"111", "222"}
\* OtpEnum
CONFIRM_EMAIL == "confirmEmail"
FORGET_PASSWORD == "forgetPassword"
SockIds == 1..MaxSockets

JWT_SECRET_LOGIN == "login"
JWT_SECRET_REFRESH == "refresh"

\* a handshake / request that carries no token at all (undefined)
NoToken == [secret |-> "none", jti |-> <<Undef, "none">>, uid |-> Undef,
            exp |-> 0]
\* a token signed with a key the server does not know
ForgedToken == [secret |-> "forged", jti |-> <<"u1", "forged">>, uid |-> "u1",
                exp |-> MaxTime + 1]

VARIABLES
    now,        \* wall clock
    users,      \* User collection: uid -> document
    companies,  \* Company collection: set of documents
    blacklist,  \* BlackListTokens collection: sequence of {tokenId, expierdAt}
    issued,     \* tokens handed out to clients so far
    chats,      \* Chat collection in natural order
    sockets,    \* socket.io connections: sock id -> state
    registry,   \* socketConnection Map, as a set of <<key, socket id>>
    tasks,      \* per connection: its sendMessage handler suspended at an await
    timers,     \* pending setTimeout callbacks of the deleteChat listener
    applications, \* Application collection in natural order
    applying,   \* create-application requests suspended before save()
    last        \* outcome of the step just taken

vars == <<now, users, companies, blacklist, issued, chats, sockets,
          registry, tasks, timers, applications, applying, last>>

\* ------------------------------------------------------------- outcomes
\* what the step just taken did: the connection and identity it ran for,
\* the response status, whether next() was called / the handshake went on,
\* whether an identity was resolved, whether the presented token was a
\* verifying but black-listed one, the events emitted, the createdAt of
\* the Conversation a timer removed (-1: none), and the :applicationId of an
\* answer-job request
NoOutcome ==
    [kind |-> "none", sock |-> 0, user |-> Undef, receiverId |-> Undef,
     body |-> "", payloadSender |-> Undef, status |-> 0, nextCalled |-> FALSE, identity |-> FALSE,
     revoked |-> FALSE, thrown |-> FALSE, ack |-> FALSE, error |-> FALSE,
     forwardTo |-> {}, found |-> FALSE, createdAt |-> -1,
     applicationId |-> 0]

\* ---------------------------------------------------------------- tokens
\* jwt.sign(publicClamis, secretKey, {expiresIn, jwtid})
generateToken(uid, secretKey, ttl, jwtid) ==
    [secret |-> secretKey, jti |-> jwtid, uid |-> uid, exp |-> now + ttl]

\* jwt.verify(token, secretKey): TRUE when it returns the payload, FALSE
\* when it throws (no token, wrong key, expired)
verifyToken(token, secretKey) ==
    /\ token.secret = secretKey
    /\ now < token.exp

IsBlackListed(jti) == \E i \in 1..Len(blacklist) : blacklist[i].tokenId = jti

\* Hash({ value }): bcrypt hashSync; the result is not the value
Hash(value) == <<"bcrypt", value>>

\* compareSync(plain, hashed)
compareSync(plain, hashed) == hashed = Hash(plain)

\* a User document as signUpService and the schema defaults build it and
\* the pre("save") hook stores it (password hashed)
NewUser(password, otps) ==
    [exists |-> TRUE, isDeleted |-> FALSE, isConfirmed |-> FALSE,
     role |-> "User", password |-> Hash(password), OTP |-> otps]

\* a registered user whose email is confirmed
SeedUser == [NewUser("pw", <<>>) EXCEPT !.isConfirmed = TRUE]

\* a slot of the collection that holds no document
NoUser == [NewUser("pw", <<>>) EXCEPT !.exists = FALSE]

\* User.findById under the pre(/^find/) hook { isDeleted: false }
UserFindById(uid) ==
    /\ uid \in Users
    /\ users[uid].exists
    /\ ~users[uid].isDeleted

\* validateUserToken(token, res).  hasRes is FALSE on the socket path, where
\* res is undefined and `res.status` raises a TypeError.
\*   out = "throw" : the promise rejects
\*   out = "res"   : the 403 response was sent and the response object is
\*                   the returned value
\*   out = "user"  : the user document is returned
validateUserToken(token, hasRes) ==
    IF ~verifyToken(token, JWT_SECRET_LOGIN)
    THEN [out |-> "throw", id |-> Undef]
    ELSE IF IsBlackListed(token.jti)
    THEN [out |-> IF hasRes THEN "res" ELSE "throw", id |-> Undef]
    ELSE IF ~UserFindById(token.uid)
    THEN [out |-> IF hasRes THEN "res" ELSE "throw", id |-> Undef]
    ELSE [out |-> "user", id |-> token.uid]

\* the fields User.findById(_id, "-password -__v") leaves out
AuthProjection == {"password", "__v"}

\* the value validateUserToken returns for a token it accepts:
\* { ...user._doc, token: { tokenId, expierdAt } }
LoggedInUser(token) ==
    LET doc == users[token.uid]
        kept == (DOMAIN doc \ AuthProjection) \cup {"token"}
    IN  [f \in kept |->
            IF f = "token"
            THEN [tokenId |-> token.jti, expierdAt |-> token.exp]
            ELSE doc[f]]

\* authenticationMiddleware(accesstoken) as called from the socket code: a
\* falsy argument selects the default `socket = null` and the Express
\* middleware function is returned instead of a user; its _id is undefined.
socketAuth(token) ==
    IF token = NoToken
    THEN [out |-> "fn", id |-> Undef]
    ELSE validateUserToken(token, FALSE)

\* the middleware returned by authenticationMiddleware(): the response status
\* it sends (0: none yet), whether next() is called, and what
\* req.loggedInUser._id reads as
httpAuth(token) ==
    LET r == validateUserToken(token, TRUE)
    IN  [status |-> IF r.out = "throw" THEN 500
                    ELSE IF r.out = "res" THEN 403 ELSE 0,
         nextCalled |-> r.out # "throw",
         identity |-> r.out = "user",
         id |-> r.id]

\* tokens a client can present
Presentable == issued \cup {NoToken, ForgedToken}

\* the presented token verifies and its id is on the black list
Revoked(token) ==
    /\ verifyToken(token, JWT_SECRET_LOGIN)
    /\ IsBlackListed(token.jti)

\* ------------------------------------------------------ Connection map
\* socketConnection.get(key); 0 stands for undefined
MapGet(m, key) ==
    IF \E p \in m : p[1] = key
    THEN (CHOOSE p \in m : p[1] = key)[2]
    ELSE 0

\* socketConnection.set(key, value)
MapSet(m, key, value) ==
    {p \in m : p[1] # key} \cup {<<key, value>>}

\* socketConnection.delete(key)
MapDelete(m, key) == {p \in m : p[1] # key}

\* ------------------------------------------------------- Chat collection
\* a filter that matches the pair in the stored order only
ChatFilter_Ordered(c, a, b) == c.senderId = a /\ c.receiverId = b

\* the filter { $or: [ {senderId: a, receiverId: b},
\*                     {senderId: b, receiverId: a} ] }
ChatFilter(c, a, b) ==
    \/ c.senderId = a /\ c.receiverId = b
    \/ c.senderId = b /\ c.receiverId = a

\* position of the document findOne / findOneAndUpdate / findOneAndDelete
\* selects (first match in natural order), 0 when none matches
ChatFindOne(cs, a, b) ==
    IF \E i \in 1..Len(cs) : ChatFilter(cs[i], a, b)
    THEN CHOOSE i \in 1..Len(cs) :
            /\ ChatFilter(cs[i], a, b)
            /\ \A j \in 1..(i - 1) : ~ChatFilter(cs[j], a, b)
    ELSE 0

\* $addToSet of a message sub-document.  Mongoose gives every sub-document a
\* fresh _id, so the new element never equals a stored one and is appended.
AddToSet(messages, m) == Append(messages, m)

\* Chat.findOneAndUpdate(filter, { $addToSet: { messages: m } })
ChatFindOneAndUpdate(cs, a, b, m) ==
    LET i == ChatFindOne(cs, a, b)
    IN  IF i = 0 THEN cs
        ELSE [cs EXCEPT ![i].messages = AddToSet(cs[i].messages, m)]

\* Chat.findOneAndDelete(filter)
ChatFindOneAndDelete(cs, a, b) ==
    LET i == ChatFindOne(cs, a, b)
    IN  IF i = 0 THEN cs
        ELSE SubSeq(cs, 1, i - 1) \o SubSeq(cs, i + 1, Len(cs))

\* what getChatServices reads: the message list of the selected document
ChatHistory(cs, a, b) ==
    LET i == ChatFindOne(cs, a, b)
    IN  IF i = 0 THEN <<>> ELSE cs[i].messages

RECURSIVE CountMessages(_)
CountMessages(cs) ==
    IF cs = <<>> THEN 0 ELSE Len(Head(cs).messages) + CountMessages(Tail(cs))

\* ---------------------------------------------------- Company collection
\* value of a field of a stored document; a field the document does not
\* have compares equal to null / undefined only
FieldOf(doc, f) == IF f \in DOMAIN doc THEN doc[f] ELSE Undef

\* a role check that any company satisfies
CompanyFindOneCreatorOrHr_Any(id) == \E c \in companies : ~c.isDeleted

\* Company.findOne({ $or: [{ cretaedBy: id }, { HRs: id }] }) under the
\* pre(/^find/) hook { isDeleted: false }.  The schema's field is createdBy;
\* no stored document has a field named cretaedBy.
CompanyFindOneCreatorOrHr(id) ==
    \E c \in companies :
        /\ ~c.isDeleted
        /\ \/ FieldOf(c, "cretaedBy") = id
           \/ id \in c.HRs

\* the company of the runs: u2 created it, u1 is its HR
SeedCompany ==
    [_id |-> "c1", createdBy |-> "u2", HRs |-> {"u1"}, isDeleted |-> FALSE]

\* ------------------------------------------------------------------ Init
\* a sendMessage listener invocation: where it is suspended, the resolved
\* loggedInUser._id, and the payload `data` it closes over
IdleTask == [pc |-> "idle", user |-> Undef, receiverId |-> Undef, body |-> "",
             payloadSender |-> Undef]

Init ==
    /\ now = 0
    /\ users = [u \in Users |-> SeedUser]
    /\ companies = {SeedCompany}
    /\ blacklist = <<>>
    /\ issued = {}
    /\ chats = <<>>
    /\ sockets = [s \in SockIds |-> [status |-> "free", token |-> NoToken,
                                     listening |-> FALSE]]
    /\ registry = {}
    /\ tasks = [s \in SockIds |-> IdleTask]
    /\ timers = {}
    /\ applications = <<>>
    /\ applying = {}
    /\ last = NoOutcome

\* ----------------------------------------------------------------- clock
Tick ==
    /\ now < MaxTime
    /\ now' = now + 1
    /\ last' = [NoOutcome EXCEPT !.kind = "tick"]
    /\ UNCHANGED <<users, companies, blacklist, issued, chats, sockets,
                   registry, tasks, timers, applications, applying>>

\* ------------------------------------------------------- sign-in/sign-out
\* the token pair signInService builds for user u; the jwtid values
\* (nanoid) are fresh
SignInTokens(u) ==
    {generateToken(u, JWT_SECRET_LOGIN, AccessTtl, <<u, "access">>),
     generateToken(u, JWT_SECRET_REFRESH, RefreshTtl, <<u, "refresh">>)}

\* signInService with valid credentials of user u
signInService(u) ==
    /\ Cardinality({k.uid : k \in issued}) < MaxLogins
    /\ \A k \in issued : k.uid # u
    /\ UserFindById(u)
    /\ issued' = issued \cup SignInTokens(u)
    /\ last' = [NoOutcome EXCEPT !.kind = "signIn", !.user = u,
                                 !.status = 200]
    /\ UNCHANGED <<now, users, companies, blacklist, chats, sockets, registry,
                   tasks, timers, applications, applying>>

\* a sign-out that black-lists the access token only
RevokedEntries_AccessOnly(token, refreshtoken) ==
    << [tokenId |-> token.jti, expierdAt |-> token.exp] >>

\* the documents signOutService hands to BlackListTokens.insertMany
RevokedEntries(token, refreshtoken) ==
    << [tokenId |-> token.jti, expierdAt |-> token.exp],
       [tokenId |-> refreshtoken.jti, expierdAt |-> refreshtoken.exp] >>

\* a sign-out that stores the access token's entry before it verifies the
\* refresh token
SignOutInserts_AccessFirst(token, refreshtoken) ==
    IF ~verifyToken(token, JWT_SECRET_LOGIN) THEN <<>>
    ELSE IF ~verifyToken(refreshtoken, JWT_SECRET_REFRESH)
    THEN << [tokenId |-> token.jti, expierdAt |-> token.exp] >>
    ELSE RevokedEntries(token, refreshtoken)

\* what signOutService inserts: the two verifyToken calls come first, and
\* either of them throwing leaves insertMany unreached
SignOutInserts(token, refreshtoken) ==
    IF verifyToken(token, JWT_SECRET_LOGIN)
          /\ verifyToken(refreshtoken, JWT_SECRET_REFRESH)
    THEN RevokedEntries(token, refreshtoken)
    ELSE <<>>

\* signOutService: headers token and refreshtoken
signOutService(token, refreshtoken) ==
    /\ Len(blacklist) < 2 * MaxSignOuts
    /\ blacklist' = blacklist \o SignOutInserts(token, refreshtoken)
    /\ IF verifyToken(token, JWT_SECRET_LOGIN)
          /\ verifyToken(refreshtoken, JWT_SECRET_REFRESH)
       THEN last' = [NoOutcome EXCEPT !.kind = "signOut",
                                      !.user = token.uid, !.status = 201]
       ELSE last' = [NoOutcome EXCEPT !.kind = "signOut", !.status = 500,
                        !.thrown = TRUE,
                        \* the identity of decodedToken, when the first
                        \* verifyToken returned
                        !.user = IF verifyToken(token, JWT_SECRET_LOGIN)
                                 THEN token.uid ELSE Undef]
    /\ UNCHANGED <<now, users, companies, issued, chats, sockets, registry,
                   tasks, timers, applications, applying>>

\* ------------------------------------------------- account, one-time codes
\* position of the entry Array.find selects: the first of the type, 0 when
\* there is none
OtpFind(otps, type) ==
    IF \E i \in 1..Len(otps) : otps[i].type = type
    THEN CHOOSE i \in 1..Len(otps) :
            /\ otps[i].type = type
            /\ \A j \in 1..(i - 1) : otps[j].type # type
    ELSE 0

\* `otp.expiresIn < new Date()`
OtpExpired(otp) == otp.expiresIn < now

\* a confirmation that leaves the used code in place
OtpWithout_Keep(otps, type) == otps

\* user.OTP.filter(o => o.type !== type)
OtpWithout(otps, type) == SelectSeq(otps, LAMBDA o : o.type # type)

\* the entry signUpService and forgetPasswordService build for a fresh code
NewOtp(code, type) ==
    [code |-> Hash(code), type |-> type, expiresIn |-> now + OtpTtl]

\* what User.findOne({ email }) can return (Undef: null).  With email
\* undefined the filter key is, depending on the Mongoose release, sent as
\* null, which no user matches, or dropped, which leaves a filter any user
\* that is not deleted matches.
UserFindOneByEmail(email) ==
    IF email = Undef
    THEN {Undef} \cup {u \in Users : UserFindById(u)}
    ELSE IF UserFindById(email) THEN {email} ELSE {Undef}

\* POST /auth/signup
signUpService(email, password, code) ==
    /\ IF UserFindById(email)
       THEN /\ users' = users
            /\ last' = [NoOutcome EXCEPT !.kind = "signUp", !.user = email,
                          !.status = 400]
       ELSE IF users[email].exists
       \* a soft-deleted user holds the email: the unique index refuses
       THEN /\ users' = users
            /\ last' = [NoOutcome EXCEPT !.kind = "signUp", !.user = email,
                          !.status = 500, !.thrown = TRUE]
       ELSE /\ users' = [users EXCEPT ![email] =
                    NewUser(password, << NewOtp(code, CONFIRM_EMAIL) >>)]
            /\ last' = [NoOutcome EXCEPT !.kind = "signUp", !.user = email,
                          !.status = 201]
    /\ UNCHANGED <<now, companies, blacklist, issued, chats, sockets,
                   registry, tasks, timers, applications, applying>>

\* PUT /auth/confirm-email, body { email, code }
confirmEmail(email, code) ==
    /\ LET i == IF UserFindById(email)
                THEN OtpFind(users[email].OTP, CONFIRM_EMAIL) ELSE 0
       IN  IF \/ ~UserFindById(email)
              \/ i = 0
              \/ OtpExpired(users[email].OTP[i])
              \/ ~compareSync(code, users[email].OTP[i].code)
           THEN /\ users' = users
                /\ last' = [NoOutcome EXCEPT !.kind = "confirmEmail",
                              !.user = email, !.status = 400]
           ELSE /\ users' = [users EXCEPT
                       ![email].isConfirmed = TRUE,
                       ![email].OTP = OtpWithout(@, CONFIRM_EMAIL)]
                /\ last' = [NoOutcome EXCEPT !.kind = "confirmEmail",
                              !.user = email, !.status = 200]
    /\ UNCHANGED <<now, companies, blacklist, issued, chats, sockets,
                   registry, tasks, timers, applications, applying>>

\* POST /auth/forget-password/:email; `user.OTP` of null raises a TypeError
forgetPasswordService(email, code) ==
    /\ IF ~UserFindById(email)
       THEN /\ users' = users
            /\ last' = [NoOutcome EXCEPT !.kind = "forgetPassword",
                          !.user = email, !.status = 500, !.thrown = TRUE]
       ELSE /\ Len(users[email].OTP) < MaxOtps
            /\ users' = [users EXCEPT ![email].OTP =
                            Append(@, NewOtp(code, FORGET_PASSWORD))]
            /\ last' = [NoOutcome EXCEPT !.kind = "forgetPassword",
                          !.user = email, !.status = 200]
    /\ UNCHANGED <<now, companies, blacklist, issued, chats, sockets,
                   registry, tasks, timers, applications, applying>>

\* req.params of POST /auth/reset-password: the route path has no :email
ResetPasswordParams == [email |-> Undef]

\* POST /auth/reset-password, body { email, password, confirmOtp }; user
\* is what User.findOne({ email }) returned for the email of req.params
resetPasswordService(body, user) ==
    /\ user \in UserFindOneByEmail(ResetPasswordParams.email)
    /\ LET i == IF user = Undef THEN 0
                ELSE OtpFind(users[user].OTP, FORGET_PASSWORD)
       IN  IF i = 0 \/ OtpExpired(users[user].OTP[i])
                    \/ ~compareSync(body.confirmOtp, users[user].OTP[i].code)
           THEN /\ users' = users
                /\ last' = [NoOutcome EXCEPT !.kind = "resetPassword",
                              !.user = user, !.status = 400]
           ELSE /\ users' = [users EXCEPT
                       ![user].OTP = OtpWithout(@, FORGET_PASSWORD),
                       ![user].password = Hash(body.password)]
                /\ last' = [NoOutcome EXCEPT !.kind = "resetPassword",
                              !.user = user, !.status = 200]
    /\ UNCHANGED <<now, companies, blacklist, issued, chats, sockets,
                   registry, tasks, timers, applications, applying>>

\* the cron job: User.updateMany({}, { $pull: { OTP: { expiresIn: { $lt:
\* now } } } })
deleteExpiredOtps ==
    /\ users' = [u \in Users |->
           IF users[u].exists
           THEN [users[u] EXCEPT !.OTP =
                    SelectSeq(@, LAMBDA o : ~(o.expiresIn < now))]
           ELSE users[u]]
    /\ last' = [NoOutcome EXCEPT !.kind = "otpCleanup"]
    /\ UNCHANGED <<now, companies, blacklist, issued, chats, sockets,
                   registry, tasks, timers, applications, applying>>

\* ----------------------------------------------- Google login, refresh
\* the token pair gmailLoginService builds for user u: both generateToken
\* calls pass secretKey: process.env.JWT_SECRET_LOGIN
GmailLoginTokens(u) ==
    {generateToken(u, JWT_SECRET_LOGIN, AccessTtl, <<u, "access">>),
     generateToken(u, JWT_SECRET_LOGIN, RefreshTtl, <<u, "refresh">>)}

\* gmailLoginService with a verified Google id token of user u.  The model
\* does not store the provider field: a user signs in by one of the two
\* paths, as a user record has one provider.
gmailLoginService(u) ==
    /\ Cardinality({k.uid : k \in issued}) < MaxLogins
    /\ \A k \in issued : k.uid # u
    /\ UserFindById(u)
    /\ issued' = issued \cup GmailLoginTokens(u)
    /\ last' = [NoOutcome EXCEPT !.kind = "gmailLogin", !.user = u,
                                 !.status = 201]
    /\ UNCHANGED <<now, users, companies, blacklist, chats, sockets, registry,
                   tasks, timers, applications, applying>>

\* the refresh operation accepts the presented token: the header is there
\* and verifyToken with JWT_SECRET_REFRESH returns
RefreshAccepts(refreshtoken) ==
    /\ refreshtoken # NoToken
    /\ verifyToken(refreshtoken, JWT_SECRET_REFRESH)

\* refreshTokenServices: header refreshtoken
refreshTokenServices(refreshtoken) ==
    /\ IF RefreshAccepts(refreshtoken)
       THEN /\ issued' = issued \cup
                   {generateToken(refreshtoken.uid, JWT_SECRET_LOGIN,
                                  AccessTtl, <<refreshtoken.uid, "renewed">>)}
            /\ last' = [NoOutcome EXCEPT !.kind = "refreshToken",
                          !.user = refreshtoken.uid, !.status = 201]
       ELSE /\ issued' = issued
            /\ last' = [NoOutcome EXCEPT !.kind = "refreshToken",
                          !.status = IF refreshtoken = NoToken
                                     THEN 401 ELSE 500,
                          !.thrown = (refreshtoken # NoToken)]
    /\ UNCHANGED <<now, users, companies, blacklist, chats, sockets, registry,
                   tasks, timers, applications, applying>>

\* -------------------------------------------------------------- sockets
\* an emit that goes to every other connection when the room is undefined
RoomReceivers_Broadcast(room, from) ==
    {x \in SockIds : /\ x # from
                     /\ sockets[x].status = "connected"
                     /\ (room = 0 \/ x = room)}

\* sockets that receive socket.to(room).emit(...) sent from socket `from`:
\* the members of the room, the emitting socket excepted
RoomReceivers(room, from) ==
    {x \in SockIds : x = room /\ x # from /\ sockets[x].status = "connected"}

\* a registry that adds the new binding without replacing the old one
registerSocketId_KeepOld(m, id, socketId) == m \cup {<<id, socketId>>}

\* registerSocketId: socketConnection.set(user?._id?.toString(), id)
registerSocketId(m, id, socketId) == MapSet(m, id, socketId)

\* io.on("connection"): registerSocketId, then the three listeners.  Line 76
\* calls deleteChatAfter24Hour, which chat.service.js exports next to
\* sendMessageService but the import of line 2 does not name; the call is
\* taken to resolve to that export, as the doc comment of line 68 has it.
establishIoConnection(s, token) ==
    /\ sockets[s].status = "free"
    /\ \A x \in SockIds : x < s => sockets[x].status # "free"
    /\ LET r == socketAuth(token)
       IN  IF r.out = "throw"
           THEN /\ registry' = registry
                \* no listener is attached: the token is never read again
                /\ sockets' = [sockets EXCEPT ![s] =
                       [status |-> "connected", token |-> NoToken,
                        listening |-> FALSE]]
                /\ last' = [NoOutcome EXCEPT !.kind = "handshake",
                              !.sock = s, !.thrown = TRUE,
                              !.revoked = Revoked(token)]
           ELSE /\ registry' = registerSocketId(registry, r.id, s)
                /\ sockets' = [sockets EXCEPT ![s] =
                       [status |-> "connected", token |-> token,
                        listening |-> TRUE]]
                /\ last' = [NoOutcome EXCEPT !.kind = "handshake",
                              !.sock = s, !.user = r.id,
                              !.nextCalled = TRUE,
                              !.identity = (r.out = "user"),
                              !.revoked = Revoked(token)]
    /\ UNCHANGED <<now, users, companies, blacklist, issued, chats, tasks,
                   timers, applications, applying>>

\* the client goes away; removeSocket's "disconnect" listener runs if it
\* was registered
removeSocket(s) ==
    /\ sockets[s].status = "connected"
    /\ sockets' = [sockets EXCEPT ![s] =
           [status |-> "closed", token |-> NoToken, listening |-> FALSE]]
    /\ LET r == socketAuth(sockets[s].token)
       IN  IF sockets[s].listening /\ r.out # "throw"
           THEN /\ registry' = MapDelete(registry, r.id)
                /\ last' = [NoOutcome EXCEPT !.kind = "disconnect",
                              !.sock = s, !.user = r.id]
           ELSE /\ registry' = registry
                /\ last' = [NoOutcome EXCEPT !.kind = "disconnect",
                              !.sock = s,
                              !.thrown = sockets[s].listening]
    /\ UNCHANGED <<now, users, companies, blacklist, issued, chats, tasks,
                   timers, applications, applying>>

\* a listener that relies on the handshake and does not validate again
ListenerAuth_AtHandshakeOnly(s) ==
    IF sockets[s].token = NoToken
    THEN [out |-> "fn", id |-> Undef]
    ELSE [out |-> "user", id |-> sockets[s].token.uid]

\* first statement of every socket listener:
\* await authenticationMiddleware(socket.handshake.auth.accesstoken)
ListenerAuth(s) == socketAuth(sockets[s].token)

\* a listener that trusts the senderId of the payload
MessageSender_FromPayload(task) == task.payloadSender

\* senderId of the message the listener builds: loggedInUser._id; the
\* payload is destructured as {body, receiverId} only
MessageSender(task) == task.user

\* "sendMessage" arrives on socket s with payload data: the listener
\* authenticates the handshake token and issues findOneAndUpdate
sendMessageStart(s, data) ==
    /\ sockets[s].status = "connected"
    /\ sockets[s].listening
    /\ tasks[s].pc = "idle"
    /\ CountMessages(chats)
         + Cardinality({x \in SockIds : tasks[x].pc # "idle"}) < MaxMessages
    /\ LET r == ListenerAuth(s)
       IN  IF r.out = "throw"
           THEN /\ tasks' = tasks
                /\ last' = [NoOutcome EXCEPT !.kind = "sendStart",
                              !.sock = s, !.thrown = TRUE,
                              !.revoked = Revoked(sockets[s].token)]
           ELSE /\ tasks' = [tasks EXCEPT ![s] =
                       [pc |-> "find", user |-> r.id,
                        receiverId |-> data.receiverId,
                        body |-> data.body,
                        payloadSender |-> data.senderId]]
                /\ last' = [NoOutcome EXCEPT !.kind = "sendStart",
                              !.sock = s, !.user = r.id,
                              !.receiverId = data.receiverId,
                              !.body = data.body,
                              !.identity = (r.out = "user")]
    /\ UNCHANGED <<now, users, companies, blacklist, issued, chats, sockets,
                   registry, timers, applications, applying>>

\* lines 91-93: acknowledgment to the sender, forward to the receiver
SendOutcome(s, kind) ==
    [NoOutcome EXCEPT !.kind = kind, !.sock = s,
        !.user = tasks[s].user, !.receiverId = tasks[s].receiverId,
        !.body = tasks[s].body, !.payloadSender = tasks[s].payloadSender,
        !.ack = TRUE,
        !.forwardTo = RoomReceivers(MapGet(registry, tasks[s].receiverId), s)]

\* a listener that applies the role check before it looks the Conversation
\* up
sendMessageFind_RoleFirst(s) ==
    /\ tasks[s].pc = "find"
    /\ LET a == tasks[s].user
           b == tasks[s].receiverId
           m == [body |-> tasks[s].body, senderId |-> MessageSender(tasks[s])]
       IN  IF ~CompanyFindOneCreatorOrHr(a)
           THEN /\ chats' = chats
                /\ tasks' = [tasks EXCEPT ![s] = IdleTask]
                /\ last' = [NoOutcome EXCEPT !.kind = "sendRejected",
                              !.sock = s, !.user = a, !.receiverId = b,
                              !.body = tasks[s].body, !.error = TRUE]
           ELSE IF ChatFindOne(chats, a, b) # 0
           THEN /\ chats' = ChatFindOneAndUpdate(chats, a, b, m)
                /\ tasks' = [tasks EXCEPT ![s] = IdleTask]
                /\ last' = SendOutcome(s, "sendAppended")
           ELSE /\ chats' = chats
                /\ tasks' = [tasks EXCEPT ![s].pc = "check"]
                /\ last' = [NoOutcome EXCEPT !.kind = "sendNoChat",
                              !.sock = s, !.user = a, !.receiverId = b]
    /\ UNCHANGED <<now, users, companies, blacklist, issued, sockets,
                   registry, timers, applications, applying>>

\* Chat.findOneAndUpdate completes
sendMessageFind(s) ==
    /\ tasks[s].pc = "find"
    /\ LET a == tasks[s].user
           b == tasks[s].receiverId
           m == [body |-> tasks[s].body, senderId |-> MessageSender(tasks[s])]
       IN  IF ChatFindOne(chats, a, b) # 0
           THEN /\ chats' = ChatFindOneAndUpdate(chats, a, b, m)
                /\ tasks' = [tasks EXCEPT ![s] = IdleTask]
                /\ last' = SendOutcome(s, "sendAppended")
           ELSE /\ chats' = chats
                /\ tasks' = [tasks EXCEPT ![s].pc = "check"]
                /\ last' = [NoOutcome EXCEPT !.kind = "sendNoChat",
                              !.sock = s, !.user = a, !.receiverId = b]
    /\ UNCHANGED <<now, users, companies, blacklist, issued, sockets,
                   registry, timers, applications, applying>>

\* Company.findOne completes
sendMessageCheck(s) ==
    /\ tasks[s].pc = "check"
    /\ IF CompanyFindOneCreatorOrHr(tasks[s].user)
       THEN /\ tasks' = [tasks EXCEPT ![s].pc = "save"]
            /\ last' = [NoOutcome EXCEPT !.kind = "sendAllowed",
                          !.sock = s, !.user = tasks[s].user,
                          !.receiverId = tasks[s].receiverId]
       ELSE /\ tasks' = [tasks EXCEPT ![s] = IdleTask]
            /\ last' = [NoOutcome EXCEPT !.kind = "sendRejected",
                          !.sock = s, !.user = tasks[s].user,
                          !.receiverId = tasks[s].receiverId,
                          !.body = tasks[s].body, !.error = TRUE]
    /\ UNCHANGED <<now, users, companies, blacklist, issued, chats, sockets,
                   registry, timers, applications, applying>>

\* chat.save() completes
sendMessageSave(s) ==
    /\ tasks[s].pc = "save"
    /\ chats' = Append(chats,
           [senderId |-> MessageSender(tasks[s]),
            receiverId |-> tasks[s].receiverId,
            messages |-> << [body |-> tasks[s].body,
                             senderId |-> MessageSender(tasks[s])] >>,
            \* schema option { timestamps: true }
            createdAt |-> now])
    /\ tasks' = [tasks EXCEPT ![s] = IdleTask]
    /\ last' = SendOutcome(s, "sendCreated")
    /\ UNCHANGED <<now, users, companies, blacklist, issued, sockets,
                   registry, timers, applications, applying>>

\* ------------------------------------------------------ deferred deletion
\* "deleteChat" arrives on socket s with payload data: the listener
\* authenticates the handshake token and arms the 24 hour timer, which
\* closes over loggedInUser, receiverId and the socket
deleteChatAfter24Hour(s, data) ==
    /\ sockets[s].status = "connected"
    /\ sockets[s].listening
    /\ Cardinality(timers) < MaxTimers
    /\ LET r == ListenerAuth(s)
       IN  IF r.out = "throw"
           THEN /\ timers' = timers
                /\ last' = [NoOutcome EXCEPT !.kind = "deleteChatEvent",
                              !.sock = s, !.thrown = TRUE]
           ELSE /\ timers' = timers \cup
                       {[id |-> CHOOSE i \in 1..MaxTimers :
                                          \A x \in timers : x.id # i,
                         at |-> now, user |-> r.id,
                         receiverId |-> data.receiverId, sock |-> s]}
                /\ last' = [NoOutcome EXCEPT !.kind = "deleteChatEvent",
                              !.sock = s, !.user = r.id,
                              !.receiverId = data.receiverId,
                              !.identity = (r.out = "user")]
    /\ UNCHANGED <<now, users, companies, blacklist, issued, chats, sockets,
                   registry, tasks, applications, applying>>

\* a callback armed with setInterval: it stays armed after it ran
deleteChatTimeout_Interval(t) ==
    /\ t \in timers
    /\ now >= t.at + DeleteDelay
    /\ timers' = timers
    /\ chats' = ChatFindOneAndDelete(chats, t.user, t.receiverId)
    /\ last' = [NoOutcome EXCEPT !.kind = "chatDeleted", !.sock = t.sock,
                  !.user = t.user, !.receiverId = t.receiverId,
                  !.found = (chats' # chats)]
    /\ UNCHANGED <<now, users, companies, blacklist, issued, sockets,
                   registry, tasks, applications, applying>>

\* the timer callback: findOneAndDelete, the two registry lookups, the two
\* emits.  `loggedInUser._id.toString()` raises a TypeError when the
\* connection had no identity, after the deletion and before both emits.
deleteChatTimeout(t) ==
    /\ t \in timers
    /\ now >= t.at + DeleteDelay
    /\ timers' = timers \ {t}
    /\ chats' = ChatFindOneAndDelete(chats, t.user, t.receiverId)
    /\ last' = [NoOutcome EXCEPT !.kind = "chatDeleted", !.sock = t.sock,
                  !.user = t.user, !.receiverId = t.receiverId,
                  !.thrown = (t.user = Undef),
                  !.found = (chats' # chats),
                  !.createdAt =
                      LET i == ChatFindOne(chats, t.user, t.receiverId)
                      IN  IF i = 0 THEN -1 ELSE chats[i].createdAt,
                  !.forwardTo =
                      IF t.user = Undef THEN {}
                      ELSE RoomReceivers(MapGet(registry, t.receiverId),
                                         t.sock)
                           \cup RoomReceivers(MapGet(registry, t.user),
                                              t.sock)]
    /\ UNCHANGED <<now, users, companies, blacklist, issued, sockets,
                   registry, tasks, applications, applying>>

\* ------------------------------------------------------------ HTTP routes
HttpOutcome(kind, a, token, okStatus) ==
    [NoOutcome EXCEPT !.kind = kind,
        !.status = IF a.status # 0 THEN a.status ELSE okStatus,
        !.nextCalled = a.nextCalled, !.identity = a.identity,
        !.revoked = Revoked(token), !.thrown = ~a.nextCalled]

\* GET /user/get-chat-history/:receiverId
getChatServices(token, receiverId) ==
    /\ LET a == httpAuth(token)
       IN  last' = [HttpOutcome("getChat", a, token, 201) EXCEPT
                      !.found = a.nextCalled
                                /\ ChatFindOne(chats, a.id, receiverId) # 0]
    /\ UNCHANGED <<now, users, companies, blacklist, issued, chats, sockets,
                   registry, tasks, timers, applications, applying>>

\* DELETE /user/delete-chat-history/:receiverId
deleteChatHistoryServicve(token, receiverId) ==
    /\ LET a == httpAuth(token)
       IN  /\ chats' = IF a.nextCalled
                       THEN ChatFindOneAndDelete(chats, a.id, receiverId)
                       ELSE chats
           /\ last' = [HttpOutcome("deleteChat", a, token, 201) EXCEPT
                         !.found = a.nextCalled /\ chats' # chats]
    /\ UNCHANGED <<now, users, companies, blacklist, issued, sockets,
                   registry, tasks, timers, applications, applying>>

\* DELETE /user/soft-delete-account: User.findByIdAndUpdate(_id, ...) under
\* the pre(/^find/) hook
softDeleteAccountService(token) ==
    /\ LET a == httpAuth(token)
       IN  /\ users' = IF a.nextCalled /\ UserFindById(a.id)
                       THEN [users EXCEPT ![a.id].isDeleted = TRUE]
                       ELSE users
           /\ last' = HttpOutcome("softDelete", a, token, 200)
    /\ UNCHANGED <<now, companies, blacklist, issued, chats, sockets,
                   registry, tasks, timers, applications, applying>>

\* --------------------------------------------------------- applications
\* the JobOpportunity collection: job -> companyId
JobCompany == [j1 |-> "c1", j2 |-> "c2"]
Jobs == DOMAIN JobCompany
\* a job id no document has
NoJob == "j0"
\* ApplicationStatusEnum
PENDING == "pending"
Answers == {"accepted", "rejected"}
AppIds == 1..MaxApplications

\* Application.findOne({ userId, jobId })
ApplicationFindOne(userId, jobId) ==
    \E i \in 1..Len(applications) :
        applications[i].userId = userId /\ applications[i].jobId = jobId

\* position of the document Application.findById(id) /
\* Application.findOneAndDelete({ userId }) selects, 0 when none matches
ApplicationFindById(id) ==
    IF \E i \in 1..Len(applications) : applications[i]._id = id
    THEN CHOOSE i \in 1..Len(applications) : applications[i]._id = id
    ELSE 0

ApplicationFindByUser(apps, userId) ==
    IF \E i \in 1..Len(apps) : apps[i].userId = userId
    THEN CHOOSE i \in 1..Len(apps) :
            /\ apps[i].userId = userId
            /\ \A j \in 1..(i - 1) : apps[j].userId # userId
    ELSE 0

\* Application.findOneAndDelete({ userId }) of the user post hook
ApplicationFindOneAndDelete(apps, userId) ==
    LET i == ApplicationFindByUser(apps, userId)
    IN  IF i = 0 THEN apps
        ELSE SubSeq(apps, 1, i - 1) \o SubSeq(apps, i + 1, Len(apps))

\* a role check that any company's HR passes
CompanyFindOneHr_AnyCompany(companyId, id) ==
    \E c \in companies : ~c.isDeleted /\ id \in c.HRs

\* Company.findOne({ _id: companyId, HRs: id }) under the pre(/^find/) hook
CompanyFindOneHr(companyId, id) ==
    \E c \in companies :
        /\ ~c.isDeleted
        /\ c._id = companyId
        /\ id \in c.HRs

\* POST /application/create/:jobId up to Application.findOne: the role
\* check, the job lookup and the already-applied check.  With a response
\* object in place of the user (403 sent by the middleware) User.findById
\* returns null and `checkUserRole.role` raises a TypeError.
cretaeApplicationCheck(token, jobId) ==
    /\ LET a == httpAuth(token)
           o == [HttpOutcome("createApplication", a, token, 0) EXCEPT
                    !.user = a.id]
       IN  IF ~a.identity
           THEN /\ applying' = applying
                /\ last' = [o EXCEPT !.thrown = TRUE]
           ELSE IF users[a.id].role # "User"
           THEN /\ applying' = applying
                /\ last' = [o EXCEPT !.status = 403]
           ELSE IF jobId \notin Jobs
           THEN /\ applying' = applying
                /\ last' = [o EXCEPT !.status = 404]
           ELSE IF ApplicationFindOne(a.id, jobId)
           THEN /\ applying' = applying
                /\ last' = [o EXCEPT !.status = 400]
           ELSE /\ Len(applications) + Cardinality(applying)
                     < MaxApplications
                /\ applying' = applying \cup
                       {[rid |-> CHOOSE i \in AppIds :
                                    \A r \in applying : r.rid # i,
                         userId |-> a.id, jobId |-> jobId]}
                /\ last' = o
    /\ UNCHANGED <<now, users, companies, blacklist, issued, chats, sockets,
                   registry, tasks, timers, applications>>

\* the rest of the handler: the CV upload, company.save() and
\* application.save(), answered 201
cretaeApplicationSave(r) ==
    /\ r \in applying
    /\ applying' = applying \ {r}
    /\ applications' = Append(applications,
           [_id |-> CHOOSE i \in AppIds :
                       \A k \in 1..Len(applications) :
                          applications[k]._id # i,
            userId |-> r.userId, jobId |-> r.jobId, status |-> PENDING])
    /\ last' = [NoOutcome EXCEPT !.kind = "applicationSaved",
                  !.user = r.userId, !.status = 201, !.identity = TRUE,
                  !.nextCalled = TRUE]
    /\ UNCHANGED <<now, users, companies, blacklist, issued, chats, sockets,
                   registry, tasks, timers>>

\* POST /application/answer-job/:applicationId, body { status }.  Without a
\* user (403 sent by the middleware) hr is null and `hr.userName` raises a
\* TypeError before the status is assigned; with the applicant not found
\* `user.email` does.
acceptOrRejectService(token, applicationId, status) ==
    /\ LET a == httpAuth(token)
           i == ApplicationFindById(applicationId)
           o == [HttpOutcome("answerJob", a, token, 0) EXCEPT
                    !.user = a.id, !.applicationId = applicationId]
       IN  IF ~a.identity
           THEN /\ applications' = applications
                /\ last' = [o EXCEPT !.thrown = TRUE]
           ELSE IF i = 0
           THEN /\ applications' = applications
                /\ last' = [o EXCEPT !.status = 404]
           ELSE IF ~CompanyFindOneHr(JobCompany[applications[i].jobId], a.id)
           THEN /\ applications' = applications
                /\ last' = [o EXCEPT !.status = 403]
           ELSE IF ~UserFindById(applications[i].userId)
           THEN /\ applications' = applications
                /\ last' = [o EXCEPT !.status = 500, !.thrown = TRUE]
           ELSE /\ applications' =
                       [applications EXCEPT ![i].status = status]
                /\ last' = [o EXCEPT !.status = 200, !.found = TRUE]
    /\ UNCHANGED <<now, users, companies, blacklist, issued, chats, sockets,
                   registry, tasks, timers, applying>>

\* DELETE /user/delete-account: User.findByIdAndDelete(_id) and the
\* post("findOneAndDelete") hook.  The users of the runs have no `company`
\* and no `mediaCloudFolder`, so the hook's only store operation is
\* Application.findOneAndDelete.  Without a user no document is selected
\* and `doc._id` of the hook raises a TypeError.
deleteUserServices(token) ==
    /\ LET a == httpAuth(token)
           o == [HttpOutcome("deleteAccount", a, token, 200) EXCEPT
                    !.user = a.id]
       IN  IF a.identity
           THEN /\ users' = [users EXCEPT ![a.id] = NoUser]
                /\ applications' =
                       ApplicationFindOneAndDelete(applications, a.id)
                /\ last' = o
           ELSE /\ users' = users
                /\ applications' = applications
                /\ last' = [o EXCEPT !.thrown = TRUE]
    /\ UNCHANGED <<now, companies, blacklist, issued, chats, sockets,
                   registry, tasks, timers, applying>>

\* what a client may send as the sendMessage payload, a senderId included
Payloads == [body : Bodies, receiverId : Users, senderId : {"u2", "u3"}]

\* authentication, token lifecycle and connection registry
NextAuth ==
    \/ Tick
    \/ \E u \in Users : signInService(u)
    \/ \E t \in Presentable, r \in Presentable : signOutService(t, r)
    \/ \E s \in SockIds, t \in Presentable : establishIoConnection(s, t)
    \/ \E s \in SockIds : removeSocket(s)
    \/ \E t \in Presentable, r \in Users : getChatServices(t, r)
    \/ \E t \in Presentable : softDeleteAccountService(t)

\* what a client presents as an access token on the chat routes
AccessCredentials ==
    {k \in issued : k.secret = JWT_SECRET_LOGIN} \cup {NoToken, ForgedToken}

\* the chat layer, entered with every user signed in and no token revoked
NextChat ==
    \/ \E s \in SockIds, t \in AccessCredentials : establishIoConnection(s, t)
    \/ \E s \in SockIds : removeSocket(s)
    \/ \E s \in SockIds, d \in Payloads : sendMessageStart(s, d)
    \/ \E s \in SockIds : sendMessageFind(s)
    \/ \E s \in SockIds : sendMessageCheck(s)
    \/ \E s \in SockIds : sendMessageSave(s)
    \/ \E t \in AccessCredentials, r \in Users : getChatServices(t, r)
    \/ \E t \in AccessCredentials, r \in Users :
          deleteChatHistoryServicve(t, r)

InitChat ==
    /\ now = 0
    /\ users = [u \in Users |-> SeedUser]
    /\ companies = {SeedCompany}
    /\ blacklist = <<>>
    /\ issued = UNION {SignInTokens(u) : u \in Users}
    /\ chats = <<>>
    /\ sockets = [s \in SockIds |-> [status |-> "free", token |-> NoToken,
                                     listening |-> FALSE]]
    /\ registry = {}
    /\ tasks = [s \in SockIds |-> IdleTask]
    /\ timers = {}
    /\ applications = <<>>
    /\ applying = {}
    /\ last = NoOutcome

\* payloads of the connection-lifecycle runs
LifePayloads == [body : {"hi"}, receiverId : Users, senderId : {"u2"}]

\* connections that outlive their token: the clock runs and users sign out
\* while connections are open and messages arrive
NextLife ==
    \/ Tick
    \/ \E u \in Users :
          signOutService(CHOOSE k \in issued : k.jti = <<u, "access">>,
                         CHOOSE k \in issued : k.jti = <<u, "refresh">>)
    \/ \E s \in SockIds, t \in AccessCredentials : establishIoConnection(s, t)
    \/ \E s \in SockIds : removeSocket(s)
    \/ \E s \in SockIds, d \in LifePayloads : sendMessageStart(s, d)
    \/ \E s \in SockIds : sendMessageFind(s)
    \/ \E s \in SockIds : sendMessageCheck(s)
    \/ \E s \in SockIds : sendMessageSave(s)

\* payloads of the deleteChat event
DeferPayloads == [receiverId : Users]

\* deletion: conversations are created, deletions are scheduled or
\* requested over HTTP, the clock runs and the timers fire
NextDefer ==
    \/ Tick
    \/ \E s \in SockIds, t \in AccessCredentials : establishIoConnection(s, t)
    \/ \E s \in SockIds : removeSocket(s)
    \/ \E s \in SockIds, d \in LifePayloads : sendMessageStart(s, d)
    \/ \E s \in SockIds : sendMessageFind(s)
    \/ \E s \in SockIds : sendMessageCheck(s)
    \/ \E s \in SockIds : sendMessageSave(s)
    \/ \E s \in SockIds, d \in DeferPayloads : deleteChatAfter24Hour(s, d)
    \/ \E t \in timers : deleteChatTimeout(t)
    \/ \E t \in AccessCredentials, r \in Users :
          deleteChatHistoryServicve(t, r)

\* the clients of the cancellation runs: the HR and one plain user
CancelUsers == {"u1", "u3"}
CancelCredentials ==
    {k \in issued : k.secret = JWT_SECRET_LOGIN /\ k.uid \in CancelUsers}

\* a scheduled deletion and everything that happens while it is pending:
\* messages, an explicit delete-history, the requester's disconnect and
\* sign-out
NextCancel ==
    \/ Tick
    \/ \E u \in CancelUsers :
          signOutService(CHOOSE k \in issued : k.jti = <<u, "access">>,
                         CHOOSE k \in issued : k.jti = <<u, "refresh">>)
    \/ \E s \in SockIds, t \in CancelCredentials :
          establishIoConnection(s, t)
    \/ \E s \in SockIds : removeSocket(s)
    \/ \E s \in SockIds, d \in LifePayloads : sendMessageStart(s, d)
    \/ \E s \in SockIds : sendMessageFind(s)
    \/ \E s \in SockIds : sendMessageCheck(s)
    \/ \E s \in SockIds : sendMessageSave(s)
    \/ \E s \in SockIds, d \in DeferPayloads : deleteChatAfter24Hour(s, d)
    \/ \E t \in timers : deleteChatTimeout(t)
    \/ \E t \in CancelCredentials, r \in Users :
          deleteChatHistoryServicve(t, r)

\* the emails of the account runs: a registered user and a newcomer
AccountUsers == {"u1", "u2"}

\* bodies of the reset-password request
ResetBodies == [email : AccountUsers, password : {"new"}, confirmOtp : Codes]

\* registration, email confirmation and password reset
NextAccount ==
    \/ Tick
    \/ \E e \in AccountUsers, c \in Codes : signUpService(e, "pw", c)
    \/ \E e \in AccountUsers, c \in Codes : confirmEmail(e, c)
    \/ \E e \in AccountUsers, c \in Codes : forgetPasswordService(e, c)
    \/ \E b \in ResetBodies, u \in Ids : resetPasswordService(b, u)
    \/ deleteExpiredOtps
    \/ signInService("u1")

\* one registered user; the others have yet to sign up
InitAccount ==
    /\ now = 0
    /\ users = [u \in Users |-> IF u = "u1" THEN SeedUser ELSE NoUser]
    /\ companies = {SeedCompany}
    /\ blacklist = <<>>
    /\ issued = {}
    /\ chats = <<>>
    /\ sockets = [s \in SockIds |-> [status |-> "free", token |-> NoToken,
                                     listening |-> FALSE]]
    /\ registry = {}
    /\ tasks = [s \in SockIds |-> IdleTask]
    /\ timers = {}
    /\ applications = <<>>
    /\ applying = {}
    /\ last = NoOutcome

\* applications: created, answered, and removed with their owner's account
NextApply ==
    \/ \E t \in AccessCredentials, j \in Jobs \cup {NoJob} :
          cretaeApplicationCheck(t, j)
    \/ \E r \in applying : cretaeApplicationSave(r)
    \/ \E t \in AccessCredentials, i \in AppIds, s \in Answers :
          acceptOrRejectService(t, i, s)
    \/ \E t \in AccessCredentials : deleteUserServices(t)
    \/ \E t \in AccessCredentials : softDeleteAccountService(t)

\* every user signed in; two companies, each with its own HR and one job
InitApply ==
    /\ now = 0
    /\ users = [u \in Users |-> SeedUser]
    /\ companies = {SeedCompany,
                    [_id |-> "c2", createdBy |-> "u3", HRs |-> {"u2"},
                     isDeleted |-> FALSE]}
    /\ blacklist = <<>>
    /\ issued = UNION {SignInTokens(u) : u \in Users}
    /\ chats = <<>>
    /\ sockets = [s \in SockIds |-> [status |-> "free", token |-> NoToken,
                                     listening |-> FALSE]]
    /\ registry = {}
    /\ tasks = [s \in SockIds |-> IdleTask]
    /\ timers = {}
    /\ applications = <<>>
    /\ applying = {}
    /\ last = NoOutcome

\* the routes that issue tokens, and a protected route to present them to
NextTokens ==
    \/ Tick
    \/ \E u \in Users : signInService(u)
    \/ \E u \in Users : gmailLoginService(u)
    \/ \E t \in Presentable : refreshTokenServices(t)
    \/ \E t \in Presentable, r \in Presentable : signOutService(t, r)
    \/ \E t \in Presentable, r \in Users : getChatServices(t, r)

Next ==
    \/ NextAuth \/ NextChat \/ NextLife \/ NextDefer \/ NextTokens
    \/ NextCancel \/ NextAccount \/ NextApply

Spec == Init /\ [][Next]_vars
SpecAuth == Init /\ [][NextAuth]_vars
SpecChat == InitChat /\ [][NextChat]_vars
SpecLife == InitChat /\ [][NextLife]_vars
SpecDefer == InitChat /\ [][NextDefer]_vars
SpecTokens == Init /\ [][NextTokens]_vars
SpecCancel == InitChat /\ [][NextCancel]_vars
SpecAccount == InitAccount /\ [][NextAccount]_vars
SpecApply == InitApply /\ [][NextApply]_vars

\* ======================================================================
\* Properties
\* ======================================================================
HttpKinds == {"getChat", "deleteChat", "softDelete"}
SocketAuthKinds == {"handshake", "sendStart"}

\* C1: once sign-out has black-listed access token T, an authentication
\* attempt presenting T (still verifying) fails: over HTTP next() is not
\* called and no identity is attached; on the socket path the attempt throws
\* and no identity is resolved.
C1_RevokedTokenIsRejected ==
    last.revoked =>
        /\ last.kind \in HttpKinds => ~last.nextCalled /\ ~last.identity
        /\ last.kind \in SocketAuthKinds => last.thrown /\ ~last.identity

\* the authentication decision on each transport: does the request or the
\* handshake go on, and was an identity resolved
HttpDecision(token) ==
    [proceeds |-> httpAuth(token).nextCalled,
     identity |-> httpAuth(token).identity]

SocketDecision(token) ==
    [proceeds |-> socketAuth(token).out # "throw",
     identity |-> socketAuth(token).out = "user"]

\* C9: for every token a client can present and every state of the black
\* list and the user store, the HTTP middleware and the socket handshake
\* take the same decision.
C9_SameDecisionOnBothTransports ==
    \A t \in Presentable : HttpDecision(t) = SocketDecision(t)

\* C10: the registry holds at most one binding per key, and after a
\* handshake that went through the key of that handshake resolves to the
\* connection that has just registered (last writer wins).
C10_OneBindingLastWriterWins ==
    /\ \A p \in registry, q \in registry : p[1] = q[1] => p = q
    /\ (last.kind = "handshake" /\ ~last.thrown)
          => MapGet(registry, last.user) = last.sock

\* C10 witness: a second handshake by an identity that is still bound on an
\* earlier, live connection has completed, and the identity now resolves to
\* the later connection.
C10_Witness ==
    /\ last.kind = "handshake" /\ last.identity
    /\ \E s \in SockIds :
          /\ s # last.sock
          /\ sockets[s].status = "connected" /\ sockets[s].listening
          /\ sockets[s].token.uid = last.user
    /\ MapGet(registry, last.user) = last.sock

\* ---------------------------------------------------------------- chat
\* the role the Company schema records: creator of, or HR in, some company
IsHrOrOwner(id) ==
    \E c \in companies : c.createdBy = id \/ id \in c.HRs

\* the listener on connection s leaves the given suspension point
Leaves(s, pc) == tasks[s].pc = pc /\ tasks'[s].pc # pc

\* the listener on connection s finishes a send that persisted its message
Completes(s) ==
    /\ tasks[s].pc \in {"find", "save"}
    /\ tasks'[s].pc = "idle"

SentMessage(s) == [body |-> tasks[s].body, senderId |-> tasks[s].user]

\* the identity a connection's handshake token stands for
TokenSubject(token) == IF token = NoToken THEN Undef ELSE token.uid

\* C2: a first message from an identity that is neither HR nor creator of
\* any company is answered with the authorization error, gets no
\* acknowledgment, and the Chat collection is left as it was, by the lookup
\* that found no Conversation and by the role check alike.
C2_NonHrNonOwnerIsRejected ==
    [][\A s \in SockIds :
          /\ (Leaves(s, "find") /\ tasks'[s].pc = "check") => chats' = chats
          /\ (Leaves(s, "check") /\ tasks[s].user \in Users
                /\ ~IsHrOrOwner(tasks[s].user))
                => /\ last'.kind = "sendRejected"
                   /\ last'.error /\ ~last'.ack
                   /\ tasks'[s].pc = "idle"
                   /\ chats' = chats]_vars

\* C2 witness: a plain user's first message has just been rejected and no
\* Conversation exists for the pair.
C2_Witness ==
    /\ last.kind = "sendRejected" /\ last.error
    /\ last.user \in Users /\ ~IsHrOrOwner(last.user)
    /\ ChatFindOne(chats, last.user, last.receiverId) = 0

\* C3: an identity that created some company, or is in some company's HR
\* list, is never refused when it starts a conversation; the Conversation it
\* creates holds exactly the one message sent, and it is acknowledged.
C3_OwnerOrHrMayStartChat ==
    /\ last.kind = "sendRejected" => ~IsHrOrOwner(last.user)
    /\ last.kind = "sendCreated" =>
          /\ last.ack
          /\ chats # <<>>
          /\ chats[Len(chats)] =
                [senderId |-> last.user, receiverId |-> last.receiverId,
                 messages |-> << [body |-> last.body,
                                  senderId |-> last.user] >>,
                 createdAt |-> now]

\* two stored Conversations are for the same unordered pair
SamePair(c, d) ==
    {c.senderId, c.receiverId} = {d.senderId, d.receiverId}

\* C4: at most one Conversation exists per unordered pair of identities.
C4_AtMostOneChatPerPair ==
    \A i \in 1..Len(chats), j \in 1..Len(chats) :
        i # j => ~SamePair(chats[i], chats[j])

\* C5: when a send completes, the history fetched for the pair is the
\* history fetched before it with the sent message appended.
C5_SentMessageIsLastOfHistory ==
    [][\A s \in SockIds :
          Completes(s) =>
              ChatHistory(chats', tasks[s].user, tasks[s].receiverId)
                = Append(ChatHistory(chats, tasks[s].user,
                                     tasks[s].receiverId),
                         SentMessage(s))]_vars

\* C6: looking up, appending to, fetching and deleting the Conversation
\* addressed as (a, b) selects the same document and leaves the same
\* collection as addressing it as (b, a).
C6_PairIsUnordered ==
    \A a \in Ids, b \in Ids :
        /\ ChatFindOne(chats, a, b) = ChatFindOne(chats, b, a)
        /\ ChatHistory(chats, a, b) = ChatHistory(chats, b, a)
        /\ ChatFindOneAndDelete(chats, a, b) = ChatFindOneAndDelete(chats, b, a)
        /\ \A m \in [body : Bodies, senderId : {a, b}] :
              ChatFindOneAndUpdate(chats, a, b, m)
                = ChatFindOneAndUpdate(chats, b, a, m)

\* C6 witness: the participant stored as receiverId has just appended to the
\* Conversation, addressing it by the participant stored as senderId.
C6_Witness ==
    /\ last.kind = "sendAppended"
    /\ last.user # last.receiverId
    /\ \E i \in 1..Len(chats) :
          /\ i = ChatFindOne(chats, last.user, last.receiverId)
          /\ chats[i].senderId = last.receiverId
          /\ chats[i].receiverId = last.user
          /\ chats[i].messages[Len(chats[i].messages)]
                = [body |-> last.body, senderId |-> last.user]

\* C7: a completed send has persisted the message and acknowledged it;
\* receiveMessage reaches no connection other than the one the registry
\* holds for the receiver, and none at all when the receiver has no binding.
C7_ForwardOnlyToBoundReceiver ==
    last.kind \in {"sendAppended", "sendCreated"} =>
        /\ last.ack
        /\ \E i \in 1..Len(chats) :
              /\ ChatFilter(chats[i], last.user, last.receiverId)
              /\ chats[i].messages[Len(chats[i].messages)]
                    = [body |-> last.body, senderId |-> last.user]
        /\ last.forwardTo \subseteq {MapGet(registry, last.receiverId)}
        /\ MapGet(registry, last.receiverId) = 0 => last.forwardTo = {}

\* C7 witness: a message was persisted and acknowledged while the receiver
\* had no binding, and nothing was forwarded.
C7_Witness ==
    /\ last.kind \in {"sendAppended", "sendCreated"}
    /\ last.ack
    /\ MapGet(registry, last.receiverId) = 0
    /\ last.forwardTo = {}
    /\ \E s \in SockIds : s # last.sock /\ sockets[s].status = "connected"

\* C8: the listener's sender is the identity of the connection's handshake
\* token from the moment the event arrives, it never changes while the
\* listener runs, and it is the senderId of the message appended and of the
\* Conversation created, whatever senderId the payload carried.
C8_SenderIsTokenIdentity ==
    [][\A s \in SockIds :
          /\ (Leaves(s, "idle"))
                => tasks'[s].user = TokenSubject(sockets[s].token)
          /\ (tasks[s].pc # "idle" /\ tasks'[s].pc # "idle")
                => tasks'[s].user = tasks[s].user
          /\ (Completes(s) /\ tasks[s].pc = "find") =>
                LET i == ChatFindOne(chats, tasks[s].user,
                                     tasks[s].receiverId)
                IN  chats'[i].messages[Len(chats'[i].messages)].senderId
                      = tasks[s].user
          /\ (Completes(s) /\ tasks[s].pc = "save") =>
                /\ chats'[Len(chats')].senderId = tasks[s].user
                /\ chats'[Len(chats')].messages[1].senderId = tasks[s].user
      ]_vars

\* C8 witness: a message has been persisted under the token's identity
\* although the payload named another sender.
C8_Witness ==
    /\ last.kind \in {"sendAppended", "sendCreated"}
    /\ last.user \in Users
    /\ last.payloadSender # last.user
    /\ \E i \in 1..Len(chats) :
          chats[i].messages[Len(chats[i].messages)]
             = [body |-> last.body, senderId |-> last.user]

\* ------------------------------------------------- connection lifecycle
\* C11: once the disconnect event of a connection has been processed, no
\* registry entry maps any key to that connection's handle.
C11_DisconnectUnbinds ==
    \A s \in SockIds :
        sockets[s].status = "closed" => \A p \in registry : p[2] # s

\* C12: a handshake that resolved an identity leaves that identity bound to
\* the connection, with its listeners attached; a handshake that resolved
\* none leaves no binding to the connection and attaches no listener.
C12_HandshakeOutcome ==
    last.kind = "handshake" =>
        IF last.identity
        THEN /\ MapGet(registry, last.user) = last.sock
             /\ sockets[last.sock].listening
        ELSE /\ \A p \in registry : p[2] # last.sock
             /\ ~sockets[last.sock].listening

\* C13: a sendMessage event on a connection whose handshake went through is
\* dispatched without validating the token again: it never fails
\* authentication.
C13_NoReauthentication ==
    last.kind = "sendStart" => ~last.thrown

\* the token validates at this moment: it verifies, is not black-listed and
\* its user exists (a connection without token has nothing to validate)
TokenStillValid(token) ==
    \/ token = NoToken
    \/ /\ token.secret = JWT_SECRET_LOGIN
       /\ now < token.exp
       /\ \A i \in 1..Len(blacklist) : blacklist[i].tokenId # token.jti
       /\ token.uid \in Users
       /\ users[token.uid].exists /\ ~users[token.uid].isDeleted

\* C13 as amended: every sendMessage event validates the handshake token
\* again; it is dispatched exactly when the token still validates at that
\* moment, and otherwise the listener throws, nothing is persisted and
\* nothing is acknowledged.
C13_ReauthenticatedOnEveryMessage ==
    [][\A s \in SockIds :
          (last'.kind = "sendStart" /\ last'.sock = s) =>
              IF TokenStillValid(sockets[s].token)
              THEN tasks'[s].pc = "find" /\ ~last'.thrown
              ELSE /\ last'.thrown /\ ~last'.ack
                   /\ tasks' = tasks
                   /\ chats' = chats]_vars

\* C13 witness: a message arrived on a connection whose handshake resolved
\* an identity and whose token has expired or been revoked since, and the
\* listener threw.
C13_Witness ==
    /\ last.kind = "sendStart" /\ last.thrown
    /\ sockets[last.sock].listening
    /\ sockets[last.sock].token # NoToken
    /\ ~TokenStillValid(sockets[last.sock].token)

\* ---------------------------------------------------- deferred deletion
\* the timer t fires in this step
TimerFires(t) == t \in timers /\ t \notin timers'

\* C14: short of an explicit delete-history request, a Conversation is
\* removed only by a deferred deletion for which 24 hours have passed since
\* it was scheduled, and when the deletion scheduled by an authenticated
\* connection for the pair fires, no Conversation of the pair is left and
\* the counterpart's live binding is notified.
C14_DeferredDeletion ==
    [][/\ (Len(chats') < Len(chats) /\ last'.kind # "deleteChat") =>
              \E t \in timers : TimerFires(t) /\ now >= t.at + DeleteDelay
       /\ \A t \in timers :
              (TimerFires(t) /\ t.user \in Users) =>
                  /\ now >= t.at + DeleteDelay
                  /\ \A i \in 1..Len(chats') :
                        {chats'[i].senderId, chats'[i].receiverId}
                            # {t.user, t.receiverId}
                  /\ LET h == MapGet(registry, t.receiverId)
                     IN  (h # 0 /\ h # t.sock
                            /\ sockets[h].status = "connected")
                            => h \in last'.forwardTo]_vars

\* C15: when a deferred deletion fires, each of the two participants that
\* is bound in the registry to a connection that is still open gets the
\* chatDeleted notification on that connection, the participant that
\* scheduled the deletion included.
C15_BothParticipantsNotified ==
    (last.kind = "chatDeleted" /\ last.user \in Users) =>
        \A p \in {last.user, last.receiverId} :
            LET h == MapGet(registry, p)
            IN  (h # 0 /\ sockets[h].status = "connected")
                    => h \in last.forwardTo

\* ------------------------------------------------ explicit delete-history
\* C16: the delete-history request of an authenticated caller a for
\* counterpart r answers 201 whatever a's role; afterwards no Conversation
\* of the pair {a, r} is stored and the history of (a, r) is empty; when
\* none was stored, the collection is unchanged.
C16_RemoveDeletesPair ==
    [][(last'.kind = "deleteChat" /\ last'.identity) =>
          \A t \in AccessCredentials, r \in Users :
              (httpAuth(t).identity /\ deleteChatHistoryServicve(t, r)) =>
                  LET a == httpAuth(t).id
                  IN  /\ last'.status = 201
                      /\ \A i \in 1..Len(chats') :
                            {chats'[i].senderId, chats'[i].receiverId}
                                # {a, r}
                      /\ ChatHistory(chats', a, r) = <<>>
                      /\ (ChatFindOne(chats, a, r) = 0 => chats' = chats)
      ]_vars

\* --------------------------------------------------------------- sign-out
\* C17: a sign-out that succeeds appends exactly two entries to the black
\* list, the first keyed by the id of the access token presented and the
\* second by the id of the refresh token presented, and changes nothing
\* else: the registry and the connections are as before.
C17_SignOutInsertsTwoEntries ==
    [][(last'.kind = "signOut" /\ last'.status = 201) =>
          /\ \A t \in Presentable, r \in Presentable :
                signOutService(t, r) =>
                    /\ Len(blacklist') = Len(blacklist) + 2
                    /\ SubSeq(blacklist', 1, Len(blacklist)) = blacklist
                    /\ blacklist'[Len(blacklist) + 1].tokenId = t.jti
                    /\ blacklist'[Len(blacklist) + 2].tokenId = r.jti
                    /\ t.jti[2] = "access" /\ r.jti[2] = "refresh"
          /\ UNCHANGED <<now, users, companies, issued, chats, sockets,
                         registry, tasks, timers, applications, applying>>]_vars

\* C17 witness: a user signed out while bound on an open connection, and
\* the binding is still there.
C17_Witness ==
    /\ last.kind = "signOut" /\ last.status = 201
    /\ Len(blacklist) = 2
    /\ MapGet(registry, last.user) # 0
    /\ sockets[MapGet(registry, last.user)].status = "connected"

\* C20: a sign-out in which either token fails verification reports an
\* error and leaves the black list as it was.
C20_SignOutAllOrNothing ==
    [][last'.kind = "signOut" =>
          /\ Len(blacklist') - Len(blacklist) \in {0, 2}
          /\ \A t \in Presentable, r \in Presentable :
                (signOutService(t, r)
                   /\ ~(verifyToken(t, JWT_SECRET_LOGIN)
                          /\ verifyToken(r, JWT_SECRET_REFRESH))) =>
                    /\ blacklist' = blacklist
                    /\ last'.status = 500 /\ last'.thrown]_vars

\* C20 witness: a sign-out whose access token verified and whose refresh
\* token did not has failed, and the black list is empty.
C20_Witness ==
    /\ last.kind = "signOut" /\ last.thrown
    /\ last.user \in Users
    /\ blacklist = <<>>

\* ------------------------------------------------- append to a Conversation
\* C18: when the lookup of a sendMessage finds a Conversation of the pair,
\* the message is appended to that Conversation whatever the sender's role:
\* no Conversation is created, the sender is acknowledged and no
\* authorization error is emitted.
C18_AppendIsUnrestricted ==
    [][\A s \in SockIds :
          (Leaves(s, "find")
             /\ ChatFindOne(chats, tasks[s].user, tasks[s].receiverId) # 0)
          => LET i == ChatFindOne(chats, tasks[s].user, tasks[s].receiverId)
             IN  /\ chats' = [chats EXCEPT ![i].messages =
                                 Append(@, SentMessage(s))]
                 /\ last'.kind = "sendAppended"
                 /\ last'.ack /\ ~last'.error
                 /\ tasks'[s].pc = "idle"]_vars

\* C18 witness: a user who is neither HR nor creator of any company has
\* just appended a message to the Conversation an HR had started with them.
C18_Witness ==
    /\ last.kind = "sendAppended" /\ last.ack
    /\ last.user \in Users /\ ~IsHrOrOwner(last.user)
    /\ Len(chats) = 1
    /\ chats[1].senderId = last.receiverId
    /\ chats[1].receiverId = last.user
    /\ Len(chats[1].messages) = 2

\* ------------------------------------------------------- signing secrets
\* what a token was issued as: the access or the refresh token of a login,
\* or the access token of a refresh
IssuedAs(k) == IF k.jti[2] = "refresh" THEN "refresh" ELSE "access"

\* C19: every issued refresh token is signed with the refresh secret and
\* every issued access token with the login secret, so that no refresh
\* token is accepted by the authenticator, on either transport, and no
\* access token is accepted by the refresh operation.
C19_DistinctSecrets ==
    \A k \in issued :
        /\ IssuedAs(k) = "refresh" =>
              /\ k.secret = JWT_SECRET_REFRESH
              /\ ~httpAuth(k).identity
              /\ socketAuth(k).out # "user"
        /\ IssuedAs(k) = "access" =>
              /\ k.secret = JWT_SECRET_LOGIN
              /\ ~RefreshAccepts(k)
\* ------------------------------------------- a pending deferred deletion
\* the Conversation c is one of the pair the timer t closes over
OfTimersPair(c, t) ==
    {c.senderId, c.receiverId} = {t.user, t.receiverId}

C22_NoSensitiveFields ==
    \A t \in Presentable :
        httpAuth(t).identity =>
            /\ "password" \notin DOMAIN LoggedInUser(t)
            /\ "OTP" \notin DOMAIN LoggedInUser(t)
\* ------------------------------------------------------- one-time codes
\* the user with this email is registered, not deleted, and holds an entry
\* of the given type that has not expired and stores the hash of the code
HoldsCode(email, type, code) ==
    /\ users[email].exists /\ ~users[email].isDeleted
    /\ \E i \in 1..Len(users[email].OTP) :
          /\ users[email].OTP[i].type = type
          /\ users[email].OTP[i].expiresIn >= now
          /\ users[email].OTP[i].code = Hash(code)

HoldsOtpOfType(email, type) ==
    \E i \in 1..Len(users[email].OTP) : users[email].OTP[i].type = type

C24_ResetPasswordWithOtp ==
    [][last'.kind = "resetPassword" =>
          \A b \in ResetBodies, u \in Ids :
              resetPasswordService(b, u) =>
                  IF HoldsCode(b.email, FORGET_PASSWORD, b.confirmOtp)
                  THEN /\ last'.status = 200
                       /\ compareSync(b.password, users'[b.email].password)
                       /\ ~HoldsOtpOfType(b.email, FORGET_PASSWORD)'
                  ELSE users' = users]_vars
\* ----------------------------------------------------------- applications
\* C25: no two stored Applications have the same user and the same job.
C25_OneApplicationPerUserAndJob ==
    \A i \in 1..Len(applications), j \in 1..Len(applications) :
        (/\ applications[i].userId = applications[j].userId
         /\ applications[i].jobId = applications[j].jobId) => i = j

\* the identity is in the HR list of the company that owns the job
IsHrOfJobsCompany(id, jobId) ==
    \E c \in companies : c._id = JobCompany[jobId] /\ id \in c.HRs

\* C26: an answer-job request changes nothing unless the application exists
\* and the caller is an HR of the company that owns its job; an
\* authenticated caller gets 404 for an application that does not exist and
\* 403 when they are not such an HR.
C26_OnlyHrOfTheCompanyAnswers ==
    [][last'.kind = "answerJob" =>
          LET stored == {k \in 1..Len(applications) :
                            applications[k]._id = last'.applicationId}
          IN  IF stored = {}
              THEN /\ applications' = applications
                   /\ last'.identity => last'.status = 404
              ELSE \A k \in stored :
                     ~(last'.identity
                         /\ IsHrOfJobsCompany(last'.user,
                                              applications[k].jobId))
                     => /\ applications' = applications
                        /\ last'.identity => last'.status = 403
      ]_vars

\* C26 witness: the HR of another company has just been refused with 403,
\* and the application is still pending.
C26_Witness ==
    /\ last.kind = "answerJob" /\ last.status = 403 /\ last.identity
    /\ \E c \in companies : last.user \in c.HRs
    /\ \E k \in 1..Len(applications) :
          /\ ~IsHrOfJobsCompany(last.user, applications[k].jobId)
          /\ applications[k].status = PENDING
    /\ Len(applications) = 1
\* ------------------------------------------- disconnect of an older socket
\* C27: processing the disconnect of one connection removes no binding of
\* an identity that resolves to another connection that is still open.
C27_OlderDisconnectKeepsNewerBinding ==
    [][last'.kind = "disconnect" =>
          \A p \in registry :
              (/\ p[1] \in Users
               /\ p[2] # last'.sock
               /\ sockets[p[2]].status = "connected")
                  => p \in registry']_vars

\* ------------------------------------------------ refresh after sign-out
\* C28: a refresh request presenting a refresh token whose id sign-out has
\* put on the black list issues no access token and is not answered 201.
C28_RevokedRefreshTokenIsRejected ==
    [][last'.kind = "refreshToken" =>
          \A t \in Presentable :
              (refreshTokenServices(t) /\ IsBlackListed(t.jti)) =>
                  /\ issued' = issued
                  /\ last'.status # 201]_vars

\* ------------------------------------------------------ deleted accounts
\* C29: a token that verifies and is not black-listed, of a user whose
\* account is soft-deleted or deleted, is refused on both transports: over
\* HTTP the answer is 403 and next() is not called, on a socket the
\* authentication throws, and no identity is resolved.
C29_DeletedIdentityIsRejected ==
    \A t \in issued :
        (/\ verifyToken(t, JWT_SECRET_LOGIN)
         /\ ~IsBlackListed(t.jti)
         /\ (~users[t.uid].exists \/ users[t.uid].isDeleted)) =>
            /\ httpAuth(t).status = 403
            /\ ~httpAuth(t).nextCalled /\ ~httpAuth(t).identity
            /\ socketAuth(t).out = "throw"

\* C30: when delete-account has been answered 200 for a user, no stored
\* Application has that user as userId.
C30_DeleteAccountRemovesApplications ==
    (last.kind = "deleteAccount" /\ last.identity /\ last.status = 200) =>
        \A i \in 1..Len(applications) : applications[i].userId # last.user
====
